---- MODULE Spec2Model ----
(***************************************************************************)
(* The stream-dispatch pipeline of zipper/dispatch.go as a state machine.  *)
(* Every goroutine of the file is a process of the model: the source       *)
(* reader, each stage's send fan-out and receiver, the per-item dispatch   *)
(* and send units, the per-session accept loops and the per-sub-stream     *)
(* read units.  Channels are bounded FIFO sequences with a closed flag.    *)
(* A send on a closed channel is a Go run-time panic, which ends the whole *)
(* program: no goroutine takes a step afterwards.                          *)
(***************************************************************************)
EXTENDS Integers, Sequences, FiniteSets, TLC

(* ------------------------------ bounds --------------------------------- *)
\* most stream functions handed to DispatcherWithFunc
NStages == 2
\* longest inbound source stream (frames, parse failure included)
MaxFrames == 2
\* most dispatches of a run: the frames of the inbound stream times the
\* stages each of them can go through
MaxDispatches == 2
\* most replicas of a pipeline, all its stages together
MaxReplicas == 2
\* capacity of every pipeline channel; dispatch.go:25 sets 100, the model
\* scales it down so that a full channel is reachable
bufferSize == 1

(* ------------------------------ frames --------------------------------- *)
Nil == 0

TagOfDataFrame == "data"
TagOfCtrlFrame == "ctrl"
TagOfBadFrame == "bad"

Carriages == <<"a", "b", "c", "d">>

\* the data frame at position i of the inbound stream
DataFrame(i) == [tag |-> TagOfDataFrame, tid |-> i, carriage |-> Carriages[i]]
\* a frame that is not a data frame
CtrlFrame(i) == [tag |-> TagOfCtrlFrame, tid |-> i, carriage |-> ""]
\* bytes from which no frame can be parsed (or the end of the stream)
BadFrame(i) == [tag |-> TagOfBadFrame, tid |-> i, carriage |-> ""]
NoFrame == [tag |-> "none", tid |-> 0, carriage |-> ""]

\* what a replica that transforms its input answers to d
Processed(d) == [tag |-> TagOfDataFrame, tid |-> d.tid, carriage |-> "r"]

\* core.ParseFrame(stream): the head of what the stream still delivers; a
\* stream that delivers nothing more blocks the caller (see CanParse)
CanParse(s) == Len(s) > 0
ParseFrame(s) ==
    [f |-> Head(s), err |-> (Head(s).tag = TagOfBadFrame), rest |-> Tail(s)]

\* the inbound streams: at position i a data frame, a non-data frame or
\* bytes that do not parse (more frames may follow them on the wire)
SourceStreams ==
    UNION { [1..n -> {TagOfDataFrame, TagOfCtrlFrame, TagOfBadFrame}]
            : n \in 0..MaxFrames }

MkStream(s) ==
    [i \in 1..Len(s) |->
        IF s[i] = TagOfDataFrame THEN DataFrame(i)
        ELSE IF s[i] = TagOfCtrlFrame THEN CtrlFrame(i)
        ELSE BadFrame(i)]

\* the replica lists a stage descriptor may return: replica i holds the
\* session i, or no session (Nil)
ReplicaLists ==
    UNION { [1..k -> BOOLEAN] : k \in 0..MaxReplicas }

MkFuncs(l) == [i \in 1..Len(l) |-> [session |-> IF l[i] THEN i ELSE Nil]]

RECURSIVE Replicas(_)
Replicas(p) == IF Len(p) = 0 THEN 0 ELSE Len(Head(p)) + Replicas(Tail(p))

\* the sfns arguments of DispatcherWithFunc: one replica list per stage
Pipelines ==
    {p \in UNION { [1..n -> ReplicaLists] : n \in 0..NStages } :
        Replicas(p) <= MaxReplicas}

\* the arguments of DispatcherWithFunc: the stream functions and what the
\* inbound stream delivers
Inputs ==
    {in \in [sfns : Pipelines, stream : SourceStreams] :
        Len(in.sfns) * Len(in.stream) <= MaxDispatches}

\* how a run's replicas answer an item d they received: the reply sub-stream
\* carries d unchanged ("echo"), a non-data frame and then two processed data
\* frames ("ctrl"), bytes that do not parse ("bad") or nothing at all ("stall")
ReplyKinds == {"echo", "ctrl", "bad", "stall"}

VARIABLES
    ctxDone,     \* the governing context is cancelled
    panicked,    \* a goroutine has panicked: the program has ended
    inbound,     \* everything the inbound source stream delivers
    stream,      \* what the inbound source stream still delivers
    srcPc,       \* the source reader's position: "select", "parse", "send",
                 \* "stopped" (returned on ctx.Done) or "ended" (break LOOP)
    srcHold,     \* the data frame the source reader is about to enqueue
    chan,        \* chan[0]: the source reader's output; chan[k]: stage k's
    closed,      \* closed[k]: how many times chan[k] has been closed
    hist,        \* hist[k]: every frame ever enqueued on chan[k], in order
    funcs,       \* funcs[k]: the replica list stage k's descriptor returns
    reply,       \* how the replicas answer (ReplyKinds)
    fanPc,       \* fanPc[k]: position of stage k's send fan-out goroutine
    rotSeq,      \* rotSeq[k]: dispatches of stage k that took a rotation number
    sends,       \* the dispatch / send units, one per item taken
    pending,     \* reply sub-streams opened by replicas, not yet accepted
    sessq,       \* sessq[k]: stage k's queue of newly accepted sessions
    sessqClosed, \* sessqClosed[k]: that queue has been closed
    recvPc,      \* recvPc[k]: position of stage k's receiver loop
    accepts,     \* the per-session accept loops
    reads        \* the per-sub-stream read units

vars == <<ctxDone, panicked, inbound, stream, srcPc, srcHold, chan, closed, hist, funcs,
          reply, fanPc, rotSeq, sends, pending, sessq, sessqClosed, recvPc,
          accepts, reads>>

srcVars == <<stream, srcPc, srcHold>>
sendVars == <<fanPc, rotSeq, sends>>
recvVars == <<sessq, sessqClosed, recvPc, accepts, reads>>
cfgVars == <<funcs, reply, inbound>>

Stages == 1..Len(funcs)
Chans == 0..Len(funcs)
\* the channel DispatcherWithFunc returns
Last == Len(funcs)

(* ----------------------------- channels -------------------------------- *)
IsClosed(k) == closed[k] > 0
IsFull(k) == Len(chan[k]) >= bufferSize

\* next <- f on an open channel with room
Enqueue(k, f) ==
    /\ chan' = [chan EXCEPT ![k] = Append(@, f)]
    /\ hist' = [hist EXCEPT ![k] = Append(@, f)]

\* close(next): closing a closed channel panics as well
Close(k) ==
    /\ closed' = [closed EXCEPT ![k] = @ + 1]
    /\ panicked' = IsClosed(k)

\* the sessions the acceptance collaborator has queued for a stage: the
\* session of every replica, a nil one included
QueuedSessions(fs) == [i \in 1..Len(fs) |-> fs[i].session]

Init ==
    /\ \E in \in Inputs :
        /\ funcs = [k \in 1..Len(in.sfns) |-> MkFuncs(in.sfns[k])]
        /\ inbound = MkStream(in.stream)
        /\ stream = inbound
    /\ reply \in ReplyKinds
    /\ ctxDone = FALSE
    /\ panicked = FALSE
    /\ srcPc = "select"
    /\ srcHold = NoFrame
    /\ chan = [k \in Chans |-> <<>>]
    /\ closed = [k \in Chans |-> 0]
    /\ hist = [k \in Chans |-> <<>>]
    /\ fanPc = [k \in Stages |-> "select"]
    /\ rotSeq = [k \in Stages |-> 0]
    /\ sends = {}
    /\ pending = {}
    /\ sessq = [k \in Stages |-> QueuedSessions(funcs[k])]
    /\ sessqClosed = [k \in Stages |-> FALSE]
    /\ recvPc = [k \in Stages |-> "select"]
    /\ accepts = {}
    /\ reads = {}

(* ------------------ readDataFromSource (lines 28-59) ------------------- *)
\* select { case <-ctx.Done(): return; default: ... }: the default branch is
\* taken only while the context is not done
SrcSelect ==
    /\ ~panicked /\ srcPc = "select"
    /\ IF ctxDone
       THEN /\ srcPc' = "stopped"
            /\ Close(0)
            /\ UNCHANGED <<stream, srcHold>>
       ELSE /\ srcPc' = "parse"
            /\ UNCHANGED <<stream, srcHold, closed, panicked>>
    /\ UNCHANGED <<ctxDone, chan, hist, cfgVars, sendVars, pending, recvVars>>

\* a reader that tries the stream again after a parse failure
SrcAfterParseRetries(r) ==
    IF r.err THEN "select"
    ELSE IF r.f.tag = TagOfDataFrame THEN "send"
    ELSE "select"

\* where the reader goes with a parsed frame
SrcAfterParse(r) ==
    IF r.err THEN "ended"
    ELSE IF r.f.tag = TagOfDataFrame THEN "send"
    ELSE "select"

\* f, err := core.ParseFrame(stream), then the switch on f.Type()
SrcParse ==
    /\ ~panicked /\ srcPc = "parse"
    /\ CanParse(stream)
    /\ LET r == ParseFrame(stream) IN
        /\ stream' = r.rest
        /\ srcPc' = SrcAfterParse(r)
        /\ srcHold' = IF SrcAfterParse(r) = "send" THEN r.f ELSE NoFrame
        /\ IF SrcAfterParse(r) = "ended"
           THEN Close(0)
           ELSE UNCHANGED <<closed, panicked>>
    /\ UNCHANGED <<ctxDone, chan, hist, cfgVars, sendVars, pending, recvVars>>

\* next <- dataFrame
SrcSend ==
    /\ ~panicked /\ srcPc = "send"
    /\ IF IsClosed(0)
       THEN /\ panicked' = TRUE
            /\ UNCHANGED <<chan, hist, srcPc, srcHold>>
       ELSE /\ ~IsFull(0)
            /\ Enqueue(0, srcHold)
            /\ srcPc' = "select"
            /\ srcHold' = NoFrame
            /\ UNCHANGED panicked
    /\ UNCHANGED <<ctxDone, stream, closed, cfgVars, sendVars, pending,
                   recvVars>>

(* ------------------ dispatchToStreamFn (lines 92-115) ------------------ *)
\* atomic.AddUint32(&x, d): the new value; the counter is zero at every call
\* (NextNumAtCall), so the sum stays far below the 2^32 wrap
AddUint32(x, d) == x + d

\* i := (int(n) - 1) % len
RoundRobinIndex(n, len) == (n - 1) % len

\* var nextNum uint32: declared in the function, so zero at every call
NextNumAtCall == 0

\* a dispatcher that forwards the item itself when the stage has no replica
DispatchedPassesWhenEmpty(u, fs, seq) ==
    IF Len(fs) = 0
    THEN [u EXCEPT !.pc = "pass", !.nrep = 0]
    ELSE IF Len(fs) = 1
    THEN [u EXCEPT !.pc = "send", !.nrep = 1, !.idx = 0]
    ELSE LET n == AddUint32(NextNumAtCall, 1)
         IN  [u EXCEPT !.pc = "send", !.nrep = Len(fs),
                       !.idx = RoundRobinIndex(n, Len(fs)), !.rot = seq + 1]

\* a dispatcher without the single-replica fast path: one replica is picked
\* through the rotation counter as well
DispatchedAlwaysRotates(u, fs, seq) ==
    IF Len(fs) = 0
    THEN [u EXCEPT !.pc = "done", !.nrep = 0]
    ELSE LET n == AddUint32(NextNumAtCall, 1)
         IN  [u EXCEPT !.pc = "send", !.nrep = Len(fs),
                       !.idx = RoundRobinIndex(n, Len(fs)), !.rot = seq + 1]

\* the unit after dispatchToStreamFn has run on the replica list fs; seq is
\* how many dispatches of the stage took a rotation number before this one
Dispatched(u, fs, seq) ==
    IF Len(fs) = 0
    THEN [u EXCEPT !.pc = "done", !.nrep = 0]
    ELSE IF Len(fs) = 1
    THEN [u EXCEPT !.pc = "send", !.nrep = 1, !.idx = 0]
    ELSE LET n == AddUint32(NextNumAtCall, 1)
         IN  [u EXCEPT !.pc = "send", !.nrep = Len(fs),
                       !.idx = RoundRobinIndex(n, Len(fs)), !.rot = seq + 1]

(* --------------- pipeStreamFn, send fan-out (lines 69-82) -------------- *)
\* a unit of work started for an item taken from stage k's input
NewUnit(k, item) ==
    [stage |-> k, data |-> item, pc |-> "dispatch", nrep |-> -1, idx |-> -1,
     rot |-> 0, opened |-> 0, ofail |-> 0, writes |-> 0, wfail |-> 0,
     passed |-> 0, cancels |-> 0]

\* case item, ok := <-upstream with an item: go dispatchToStreamFn(sfn, item,
\* next) starts the item's goroutine, which runs later
FanTake(k) ==
    /\ ~panicked /\ fanPc[k] = "select"
    /\ Len(chan[k - 1]) > 0
    /\ chan' = [chan EXCEPT ![k - 1] = Tail(@)]
    /\ sends' = sends \cup {NewUnit(k, Head(chan[k - 1]))}
    /\ UNCHANGED <<ctxDone, panicked, srcVars, closed, hist, cfgVars, fanPc,
                   rotSeq, pending, recvVars>>

\* the item's goroutine runs dispatchToStreamFn, up to its own
\* go sendDataToStreamFn(...) or its return
Dispatch(u) ==
    /\ ~panicked /\ u \in sends /\ u.pc = "dispatch"
    /\ LET v == Dispatched(u, funcs[u.stage], rotSeq[u.stage])
       IN  /\ sends' = (sends \ {u}) \cup {v}
           /\ rotSeq' = [rotSeq EXCEPT ![u.stage] =
                            IF v.rot > 0 THEN v.rot ELSE @]
    /\ UNCHANGED <<ctxDone, panicked, srcVars, chan, closed, hist, cfgVars,
                   fanPc, pending, recvVars>>

\* case item, ok := <-upstream with !ok: the upstream is closed and drained
FanUpstreamClosed(k) ==
    /\ ~panicked /\ fanPc[k] = "select"
    /\ Len(chan[k - 1]) = 0 /\ IsClosed(k - 1)
    /\ fanPc' = [fanPc EXCEPT ![k] = "done"]
    /\ UNCHANGED <<ctxDone, panicked, srcVars, chan, closed, hist, cfgVars,
                   rotSeq, sends, pending, recvVars>>

\* case <-ctx.Done(): return
FanCancelled(k) ==
    /\ ~panicked /\ fanPc[k] = "select"
    /\ ctxDone
    /\ fanPc' = [fanPc EXCEPT ![k] = "done"]
    /\ UNCHANGED <<ctxDone, panicked, srcVars, chan, closed, hist, cfgVars,
                   rotSeq, sends, pending, recvVars>>

(* ------------------ sendDataToStreamFn (lines 118-155) ----------------- *)
SessionOf(u) == funcs[u.stage][u.idx + 1].session

\* a send path that treats a failed open like a failed write: cancel() and
\* return, the item is not passed on
OpenedDropsOnFailure(u, session, ok) ==
    IF session = Nil THEN [u EXCEPT !.pc = "pass"]
    ELSE IF ~ok
    THEN [u EXCEPT !.pc = "done", !.opened = @ + 1, !.ofail = @ + 1,
                   !.cancels = @ + 1]
    ELSE [u EXCEPT !.pc = "write", !.opened = @ + 1]

\* the nil check and session.OpenUniStream(); ok is whether the open succeeds
Opened(u, session, ok) ==
    IF session = Nil THEN [u EXCEPT !.pc = "pass"]
    ELSE IF ~ok
    THEN [u EXCEPT !.pc = "pass", !.opened = @ + 1, !.ofail = @ + 1]
    ELSE [u EXCEPT !.pc = "write", !.opened = @ + 1]

SendOpen(u) ==
    /\ ~panicked /\ u \in sends /\ u.pc = "send"
    /\ \E ok \in BOOLEAN :
        sends' = (sends \ {u}) \cup {Opened(u, SessionOf(u), ok)}
    /\ UNCHANGED <<ctxDone, panicked, srcVars, chan, closed, hist, cfgVars,
                   fanPc, rotSeq, pending, recvVars>>

\* what the passthrough puts on the output channel
PassItem(u) == u.data

\* a send path without the return after the passthrough: it goes on to the
\* write
PassedFallsThrough(u) ==
    [u EXCEPT !.pc = "write", !.passed = @ + 1, !.cancels = @ + 1]

\* the unit after next <- data; cancel(); return
Passed(u) == [u EXCEPT !.pc = "done", !.passed = @ + 1, !.cancels = @ + 1]

\* next <- data; cancel(); return on the nil-session and open-failure paths
SendPass(u) ==
    /\ ~panicked /\ u \in sends /\ u.pc = "pass"
    /\ IF IsClosed(u.stage)
       THEN /\ panicked' = TRUE
            /\ UNCHANGED <<chan, hist, sends>>
       ELSE /\ ~IsFull(u.stage)
            /\ Enqueue(u.stage, PassItem(u))
            /\ sends' = (sends \ {u}) \cup {Passed(u)}
            /\ UNCHANGED panicked
    /\ UNCHANGED <<ctxDone, srcVars, closed, cfgVars, fanPc, rotSeq, pending,
                   recvVars>>

\* a send path that treats a failed write like a failed open: the item is
\* passed on before cancel()
WrittenPassesOnFailure(u, ok) ==
    IF ok THEN [u EXCEPT !.pc = "done", !.writes = @ + 1]
    ELSE [u EXCEPT !.pc = "pass", !.writes = @ + 1, !.wfail = @ + 1]

\* the unit after stream.Write(data.Encode()); stream.Close(); ok is whether
\* the write succeeded; a failed write is followed by cancel(); return
Written(u, ok) ==
    IF ok THEN [u EXCEPT !.pc = "done", !.writes = @ + 1]
    ELSE [u EXCEPT !.pc = "done", !.writes = @ + 1, !.wfail = @ + 1,
                   !.cancels = @ + 1]

\* the frames of the reply sub-stream a replica opens for the item d
ReplyStream(d) ==
    IF reply = "echo" THEN <<d>>
    ELSE IF reply = "ctrl"
    THEN <<CtrlFrame(d.tid), Processed(d), Processed(d)>>
    ELSE IF reply = "bad" THEN <<BadFrame(d.tid)>>
    ELSE <<>>

SendWrite(u) ==
    /\ ~panicked /\ u \in sends /\ u.pc = "write"
    /\ \E ok \in BOOLEAN :
        /\ sends' = (sends \ {u}) \cup {Written(u, ok)}
        /\ pending' =
             IF ok
             THEN pending \cup {[stage |-> u.stage, session |-> SessionOf(u),
                                 tid |-> u.data.tid,
                                 frames |-> ReplyStream(u.data)]}
             ELSE pending
    /\ UNCHANGED <<ctxDone, panicked, srcVars, chan, closed, hist, cfgVars,
                   fanPc, rotSeq, recvVars>>

(* ------------- receiveResponseFromStreamFn (lines 158-191) ------------- *)
\* a receiver that closes the channel and stays in its loop
RecvReturnStays(k) ==
    /\ recvPc' = recvPc
    /\ Close(k)

\* pipeStreamFn's outer goroutine returns from the receiver: defer close(next)
RecvReturn(k) ==
    /\ recvPc' = [recvPc EXCEPT ![k] = "done"]
    /\ Close(k)

\* case <-ctx.Done(): return
RecvCancelled(k) ==
    /\ ~panicked /\ recvPc[k] = "select"
    /\ ctxDone
    /\ RecvReturn(k)
    /\ UNCHANGED <<ctxDone, srcVars, chan, hist, cfgVars, sendVars, pending,
                   sessq, sessqClosed, accepts, reads>>

\* case session, ok := <-ch with !ok: return
RecvQueueClosed(k) ==
    /\ ~panicked /\ recvPc[k] = "select"
    /\ Len(sessq[k]) = 0 /\ sessqClosed[k]
    /\ RecvReturn(k)
    /\ UNCHANGED <<ctxDone, srcVars, chan, hist, cfgVars, sendVars, pending,
                   sessq, sessqClosed, accepts, reads>>

\* the accept loops after the receiver took session from the queue: a nil
\* session is skipped, any other gets a loop of its own
WithAcceptLoop(as, k, session) ==
    IF session = Nil THEN as
    ELSE as \cup {[stage |-> k, session |-> session, pc |-> "accept",
                   errs |-> 0]}

\* case session, ok := <-ch with a session
RecvSession(k) ==
    /\ ~panicked /\ recvPc[k] = "select"
    /\ Len(sessq[k]) > 0
    /\ sessq' = [sessq EXCEPT ![k] = Tail(@)]
    /\ accepts' = WithAcceptLoop(accepts, k, Head(sessq[k]))
    /\ UNCHANGED <<ctxDone, panicked, srcVars, chan, closed, hist, cfgVars,
                   sendVars, pending, sessqClosed, recvPc, reads>>

\* the read unit started for an accepted sub-stream
NewRead(p) ==
    [stage |-> p.stage, session |-> p.session, tid |-> p.tid,
     frames |-> p.frames, pc |-> "select", hold |-> NoFrame, parsed |-> 0,
     fwd |-> 0]

\* stream, err := session.AcceptUniStream(ctx) with a sub-stream:
\* go readDataFromStreamFn(ctx, name, stream, next)
Accept(a) ==
    /\ ~panicked /\ a \in accepts /\ a.pc = "accept"
    /\ \E p \in pending :
        /\ p.stage = a.stage /\ p.session = a.session
        /\ pending' = pending \ {p}
        /\ reads' = reads \cup {NewRead(p)}
    /\ UNCHANGED <<ctxDone, panicked, srcVars, chan, closed, hist, cfgVars,
                   sendVars, sessq, sessqClosed, recvPc, accepts>>

\* an accept loop that calls AcceptUniStream again after an error
AcceptRetries(a) == [a EXCEPT !.errs = @ + 1]

\* the accept loop after AcceptUniStream returned an error: break
AcceptEnded(a) == [a EXCEPT !.pc = "done", !.errs = @ + 1]

\* AcceptUniStream(ctx) returns the context's error once ctx is done
AcceptCancelled(a) ==
    /\ ~panicked /\ a \in accepts /\ a.pc = "accept"
    /\ ctxDone
    /\ accepts' = (accepts \ {a}) \cup {AcceptEnded(a)}
    /\ UNCHANGED <<ctxDone, panicked, srcVars, chan, closed, hist, cfgVars,
                   sendVars, pending, sessq, sessqClosed, recvPc, reads>>

\* AcceptUniStream(ctx) returns an error because the connection closed or
\* failed, which may happen at any time
AcceptFailed(a) ==
    /\ ~panicked /\ a \in accepts /\ a.pc = "accept"
    /\ accepts' = (accepts \ {a}) \cup {AcceptEnded(a)}
    /\ UNCHANGED <<ctxDone, panicked, srcVars, chan, closed, hist, cfgVars,
                   sendVars, pending, sessq, sessqClosed, recvPc, reads>>

(* ------------------ readDataFromStreamFn (lines 194-240) --------------- *)
\* select { case <-ctx.Done(): return; default: ... }
ReadSelect(r) ==
    /\ ~panicked /\ r \in reads /\ r.pc = "select"
    /\ reads' = (reads \ {r}) \cup
                   {[r EXCEPT !.pc = IF ctxDone THEN "done" ELSE "parse"]}
    /\ UNCHANGED <<ctxDone, panicked, srcVars, chan, closed, hist, cfgVars,
                   sendVars, pending, sessq, sessqClosed, recvPc, accepts>>

\* a read unit without the frame type check: whatever parses is forwarded
ParsedForwardsAny(r, p) ==
    IF p.err
    THEN [r EXCEPT !.pc = "done", !.frames = p.rest, !.parsed = @ + 1]
    ELSE [r EXCEPT !.pc = "fwd", !.frames = p.rest, !.parsed = @ + 1,
                   !.hold = p.f]

\* a read unit that returns on a data frame without forwarding it
ParsedDropsData(r, p) ==
    IF p.err
    THEN [r EXCEPT !.pc = "done", !.frames = p.rest, !.parsed = @ + 1]
    ELSE IF p.f.tag # TagOfDataFrame
    THEN [r EXCEPT !.pc = "select", !.frames = p.rest, !.parsed = @ + 1]
    ELSE [r EXCEPT !.pc = "done", !.frames = p.rest, !.parsed = @ + 1]

\* the read unit after ParseFrame returned p: a parse failure ends it, a frame
\* that is not a data frame sends it round the loop again, a data frame is
\* held for the forward
Parsed(r, p) ==
    IF p.err
    THEN [r EXCEPT !.pc = "done", !.frames = p.rest, !.parsed = @ + 1]
    ELSE IF p.f.tag # TagOfDataFrame
    THEN [r EXCEPT !.pc = "select", !.frames = p.rest, !.parsed = @ + 1]
    ELSE [r EXCEPT !.pc = "fwd", !.frames = p.rest, !.parsed = @ + 1,
                   !.hold = p.f]

\* f, err := core.ParseFrame(stream)
ReadParse(r) ==
    /\ ~panicked /\ r \in reads /\ r.pc = "parse"
    /\ CanParse(r.frames)
    /\ reads' = (reads \ {r}) \cup {Parsed(r, ParseFrame(r.frames))}
    /\ UNCHANGED <<ctxDone, panicked, srcVars, chan, closed, hist, cfgVars,
                   sendVars, pending, sessq, sessqClosed, recvPc, accepts>>

\* a read unit that goes round its loop again after forwarding a frame
ForwardedKeepsReading(r) == [r EXCEPT !.pc = "select", !.fwd = @ + 1]

\* the read unit after next <- data; return
Forwarded(r) == [r EXCEPT !.pc = "done", !.fwd = @ + 1]

\* next <- data; return
ReadForward(r) ==
    /\ ~panicked /\ r \in reads /\ r.pc = "fwd"
    /\ IF IsClosed(r.stage)
       THEN /\ panicked' = TRUE
            /\ UNCHANGED <<chan, hist, reads>>
       ELSE /\ ~IsFull(r.stage)
            /\ Enqueue(r.stage, r.hold)
            /\ reads' = (reads \ {r}) \cup {Forwarded(r)}
            /\ UNCHANGED panicked
    /\ UNCHANGED <<ctxDone, srcVars, closed, cfgVars, sendVars, pending,
                   sessq, sessqClosed, recvPc, accepts>>

(* --------------------------- the environment --------------------------- *)
\* the caller cancels the governing context
Cancel ==
    /\ ~panicked /\ ~ctxDone
    /\ ctxDone' = TRUE
    /\ UNCHANGED <<panicked, srcVars, chan, closed, hist, cfgVars, sendVars,
                   pending, recvVars>>

\* the caller of DispatcherWithFunc takes a frame from the returned channel
Consume ==
    /\ ~panicked
    /\ Len(chan[Last]) > 0
    /\ chan' = [chan EXCEPT ![Last] = Tail(@)]
    /\ UNCHANGED <<ctxDone, panicked, srcVars, closed, hist, cfgVars, sendVars,
                   pending, recvVars>>

\* the session directory closes a stage's queue of sessions
CloseSessionQueue(k) ==
    /\ ~panicked /\ ~sessqClosed[k]
    /\ sessqClosed' = [sessqClosed EXCEPT ![k] = TRUE]
    /\ UNCHANGED <<ctxDone, panicked, srcVars, chan, closed, hist, cfgVars,
                   sendVars, pending, sessq, recvPc, accepts, reads>>

(* --------------------------- specifications ---------------------------- *)
\* the steps of the program's goroutines
Source == SrcSelect \/ SrcParse \/ SrcSend

FanOut(k) == FanTake(k) \/ FanUpstreamClosed(k) \/ FanCancelled(k)

SendUnit(u) == SendOpen(u) \/ SendPass(u) \/ SendWrite(u)

\* the goroutines of one item: its dispatch, then its send
ItemUnit(u) == Dispatch(u) \/ SendUnit(u)

Receiver(k) == RecvCancelled(k) \/ RecvQueueClosed(k) \/ RecvSession(k)

AcceptLoop(a) == Accept(a) \/ AcceptCancelled(a)

ReadUnit(r) == ReadSelect(r) \/ ReadParse(r) \/ ReadForward(r)

Next ==
    \/ SrcSelect
    \/ SrcParse
    \/ SrcSend
    \/ \E k \in Stages : FanTake(k)
    \/ \E k \in Stages : FanUpstreamClosed(k)
    \/ \E k \in Stages : FanCancelled(k)
    \/ \E u \in sends : Dispatch(u)
    \/ \E u \in sends : SendOpen(u)
    \/ \E u \in sends : SendPass(u)
    \/ \E u \in sends : SendWrite(u)
    \/ \E k \in Stages : RecvCancelled(k)
    \/ \E k \in Stages : RecvQueueClosed(k)
    \/ \E k \in Stages : RecvSession(k)
    \/ \E a \in accepts : Accept(a)
    \/ \E a \in accepts : AcceptCancelled(a)
    \/ \E a \in accepts : AcceptFailed(a)
    \/ \E r \in reads : ReadSelect(r)
    \/ \E r \in reads : ReadParse(r)
    \/ \E r \in reads : ReadForward(r)
    \/ Cancel
    \/ Consume
    \/ \E k \in Stages : CloseSessionQueue(k)

Spec == Init /\ [][Next]_vars

\* Every goroutine that can take a step eventually takes one (the Go scheduler
\* starves no runnable goroutine); the environment (the caller, the session
\* directory, the connections) is under no obligation.
Fairness ==
    /\ WF_vars(Source)
    /\ \A k \in 1..NStages : WF_vars(k \in Stages /\ FanOut(k))
    /\ \A k \in 1..NStages : WF_vars(k \in Stages /\ Receiver(k))
    /\ \A k \in 1..NStages : \A i \in 1..MaxFrames :
         WF_vars(\E u \in sends :
                    u.stage = k /\ u.data.tid = i /\ ItemUnit(u))
    /\ \A k \in 1..NStages : \A s \in 1..MaxReplicas :
         WF_vars(\E a \in accepts :
                    a.stage = k /\ a.session = s /\ AcceptLoop(a))
    /\ \A k \in 1..NStages : \A i \in 1..MaxFrames :
         WF_vars(\E r \in reads : r.stage = k /\ r.tid = i /\ ReadUnit(r))

FairSpec == Init /\ [][Next]_vars /\ Fairness

(* ------------------------------ helpers -------------------------------- *)
\* the items stage k's fan-out has taken from its input channel, in order
Taken(k) == SubSeq(hist[k - 1], 1, Len(hist[k - 1]) - Len(chan[k - 1]))

\* how many times f was put on a channel with history s
Occurrences(s, f) == Cardinality({i \in DOMAIN s : s[i] = f})

\* the frames of s that belong to the item with transaction id tid
OfItem(s, tid) == {i \in DOMAIN s : s[i].tid = tid}

UnitsOf(k) == {u \in sends : u.stage = k}

\* the unit was handed a replica whose session is nil, or its open failed
NilOrOpenFailed(u) == u.idx >= 0 /\ (SessionOf(u) = Nil \/ u.ofail > 0)

(* ------------------------------- claims -------------------------------- *)
\* C1: with a stable list of K > 1 replicas, the i-th dispatch that takes a
\* rotation number selects replicas[(i-1) mod K] (R0, R1, R0 for two replicas)
C1_RoundRobinOrder ==
    \A u \in sends : u.rot > 0 => u.idx = (u.rot - 1) % u.nrep

\* C2: a send unit whose replica has a nil session, or whose open failed,
\* writes nothing to the replica, puts the original item on the stage's output
\* channel at most once and never anything else, and has put it exactly once
\* and invoked cancel exactly once when it returns
C2_PassthroughOnNilOrOpenFailure ==
    \A u \in sends : NilOrOpenFailed(u) =>
        /\ u.writes = 0
        /\ u.passed <= 1 /\ u.cancels <= 1
        /\ Occurrences(hist[u.stage], u.data) = u.passed
        /\ Cardinality(OfItem(hist[u.stage], u.data.tid)) = u.passed
        /\ u.pc = "done" => (u.passed = 1 /\ u.cancels = 1)

\* a nil-session unit and an open-failure unit have both returned after
\* passing their item on
C2_Witness ==
    \E u, v \in sends :
        /\ u.pc = "done" /\ u.idx >= 0 /\ SessionOf(u) = Nil /\ u.passed = 1
        /\ v.pc = "done" /\ v.ofail = 1 /\ v.passed = 1 /\ v.cancels = 1

\* C3: a send unit whose write failed after a successful open never puts the
\* item on the stage's output channel (no frame of the item appears there) and
\* has invoked cancel exactly once when it returns
C3_WriteFailureDrops ==
    \A u \in sends : u.wfail > 0 =>
        /\ u.opened = 1 /\ u.ofail = 0 /\ u.writes = 1
        /\ u.passed = 0
        /\ OfItem(hist[u.stage], u.data.tid) = {}
        /\ u.cancels <= 1
        /\ u.pc = "done" => u.cancels = 1

C3_Witness ==
    \E u \in sends : u.wfail = 1 /\ u.pc = "done" /\ u.cancels = 1

\* C4: an item whose dispatch found the stage's replica list empty is dropped:
\* nothing of it reaches the stage's output channel, no sub-stream is opened,
\* no cancel is invoked, and the fan-out goes on taking items (it stops only on
\* cancellation or when its input is closed and drained)
C4_EmptyListDrops ==
    \A k \in Stages :
        /\ \A u \in UnitsOf(k) : u.nrep = 0 =>
            /\ u.pc = "done" /\ u.idx = -1
            /\ u.passed = 0 /\ u.opened = 0 /\ u.writes = 0 /\ u.cancels = 0
            /\ OfItem(hist[k], u.data.tid) = {}
        /\ Len(funcs[k]) = 0 =>
            /\ hist[k] = <<>>
            /\ Cardinality(UnitsOf(k)) = Len(Taken(k))
            /\ \A u \in UnitsOf(k) : u.pc # "dispatch" => u.nrep = 0
        /\ fanPc[k] = "done" =>
            (ctxDone \/ (IsClosed(k - 1) /\ Len(chan[k - 1]) = 0))

\* two items in a row were dropped by a stage without replicas
C4_Witness ==
    \E k \in Stages :
        /\ Len(funcs[k]) = 0
        /\ Cardinality({u \in UnitsOf(k) : u.nrep = 0 /\ u.pc = "done"}) = 2

\* the replica of stage k received the item tid: it opened its reply
\* sub-stream, which is pending or has been accepted
Received(k, tid) ==
    Cardinality({p \in pending : p.stage = k /\ p.tid = tid})
        + Cardinality({r \in reads : r.stage = k /\ r.tid = tid})

\* C5: in a stage with exactly one replica every item taken from the input has
\* one unit, whose dispatch hands it that replica without taking a rotation
\* number and which opens and writes at most once; when the session is healthy
\* (non-nil, open and write succeed) the returned unit has opened one
\* sub-stream and written the item once
C5_SingleReplicaExactlyOnce ==
    \A k \in Stages : Len(funcs[k]) = 1 =>
        /\ rotSeq[k] = 0
        /\ Cardinality(UnitsOf(k)) = Len(Taken(k))
        /\ \A u \in UnitsOf(k) :
            /\ u.pc # "dispatch" => (u.nrep = 1 /\ u.idx = 0)
            /\ u.rot = 0
            /\ u.opened <= 1 /\ u.writes <= 1
            /\ (u.pc = "done" /\ SessionOf(u) # Nil /\ u.ofail = 0
                    /\ u.wfail = 0) =>
                /\ u.opened = 1 /\ u.writes = 1
                /\ u.passed = 0 /\ u.cancels = 0
                /\ Received(k, u.data.tid) = 1

\* two items were written to the single healthy replica of a stage
C5_Witness ==
    \E k \in Stages :
        /\ Len(funcs[k]) = 1
        /\ Cardinality({u \in UnitsOf(k) :
                           u.pc = "done" /\ u.writes = 1 /\ u.wfail = 0}) = 2

\* C6: once the governing context is cancelled, every stage's output channel
\* is eventually closed
C6_CancelClosesEveryStage ==
    ctxDone ~> (\A k \in Stages : IsClosed(k))

\* C7: once the governing context is cancelled, nothing more is put on any
\* pipeline channel
C7_NoEnqueueAfterCancel ==
    [][ctxDone => hist' = hist]_vars

\* C8: once the inbound source stream has ended with a parse failure, the
\* channel DispatcherWithFunc returned is eventually closed
C8_SourceEndClosesOutput ==
    (srcPc = "ended") ~> IsClosed(Last)

\* one stage, one replica with a session, replies are echoes, and no open or
\* write has failed
EchoScenario ==
    /\ Len(funcs) = 1 /\ Len(funcs[1]) = 1 /\ funcs[1][1].session # Nil
    /\ reply = "echo"
    /\ \A u \in sends : u.ofail = 0 /\ u.wfail = 0

\* where f stands in s
Pos(s, f) == CHOOSE i \in DOMAIN s : s[i] = f

\* C9 as stated: in the echo scenario the stage's output carries the input
\* payloads in the order in which the items were taken
C9_EchoInTakeOrder ==
    EchoScenario =>
        \A i, j \in DOMAIN hist[1] :
            i < j => Pos(Taken(1), hist[1][i]) < Pos(Taken(1), hist[1][j])

\* every unit of work of the single stage has run to completion and the
\* context was never cancelled
EchoComplete ==
    /\ ~ctxDone /\ ~panicked
    /\ \A u \in sends : u.pc = "done"
    /\ pending = {}
    /\ \A r \in reads : r.pc = "done"

\* C9, amended: in the echo scenario every frame on the stage's output is an
\* item taken from the input, unchanged and at most once, and once every unit
\* has run to completion without cancellation every taken item is there
\* exactly once; the order is not fixed
C9_EchoEachOnceAnyOrder ==
    EchoScenario =>
        /\ \A i \in DOMAIN hist[1] :
            /\ Occurrences(Taken(1), hist[1][i]) = 1
            /\ Occurrences(hist[1], hist[1][i]) = 1
        /\ EchoComplete =>
            \A i \in DOMAIN Taken(1) : Occurrences(hist[1], Taken(1)[i]) = 1

\* both items of a two-item stream have been echoed onto the output
C9_Witness ==
    EchoScenario /\ EchoComplete /\ Len(Taken(1)) = 2 /\ Len(hist[1]) = 2

\* C10: once the governing context is cancelled, the source reader eventually
\* exits (and closes its output channel)
C10_CancelStopsSource ==
    ctxDone ~> (srcPc \in {"stopped", "ended"} /\ closed[0] = 1)

IsData(f) == f.tag = TagOfDataFrame

NumParsed == Len(inbound) - Len(stream)

\* the position of the first frame of s that does not parse, Len(s) + 1 if
\* all of them do
FirstFailure(s) ==
    IF \E i \in DOMAIN s : s[i].tag = TagOfBadFrame
    THEN CHOOSE i \in DOMAIN s :
            /\ s[i].tag = TagOfBadFrame
            /\ \A j \in 1..(i - 1) : s[j].tag # TagOfBadFrame
    ELSE Len(s) + 1

\* C11: what the source reader has put on its output channel (with the frame
\* it is about to put there) is exactly the data frames among the frames it
\* has parsed, in stream order, each once; it stops at the first parse
\* failure, reads nothing after it and has closed the channel; only a
\* cancellation makes it stop earlier
C11_SourceForwardsDataInOrder ==
    /\ stream = SubSeq(inbound, NumParsed + 1, Len(inbound))
    /\ NumParsed <= FirstFailure(inbound)
    /\ hist[0] \o (IF srcPc = "send" THEN <<srcHold>> ELSE <<>>)
         = SelectSeq(SubSeq(inbound, 1, NumParsed), IsData)
    /\ (srcPc = "ended") <=> (NumParsed = FirstFailure(inbound))
    /\ srcPc = "ended" => closed[0] = 1
    /\ srcPc = "stopped" => ctxDone

\* the reader forwarded a data frame, omitted a non-data frame or stopped in
\* front of a frame it never read, and ended on a parse failure
C11_Witness ==
    /\ srcPc = "ended" /\ ~ctxDone
    /\ Len(hist[0]) + Len(stream) = 1

\* C12: every item a stage has taken has one send unit, handed to at most one
\* replica; the unit opens at most one sub-stream and does at most one of the
\* two: write the item to the replica, or pass it through onto the stage's
\* output channel, and neither twice
C12_AtMostOnePerItem ==
    \A k \in Stages :
        /\ Cardinality(UnitsOf(k)) = Len(Taken(k))
        /\ \A u \in UnitsOf(k) :
            /\ \E i \in DOMAIN Taken(k) : Taken(k)[i] = u.data
            /\ \A v \in UnitsOf(k) : v.data.tid = u.data.tid => v = u
            /\ u.opened <= 1
            /\ u.writes + u.passed <= 1
            /\ u.writes = 0 => Occurrences(hist[k], u.data) = u.passed

\* in one stage an item was passed through and another one written
C12_Witness ==
    \E u, v \in sends :
        /\ u.stage = v.stage
        /\ u.pc = "done" /\ u.passed = 1 /\ u.writes = 0
        /\ v.pc = "done" /\ v.writes = 1 /\ v.wfail = 0 /\ v.passed = 0

\* C13: a read unit whose first parsed frame is not a data frame parses no
\* further frame of the sub-stream and forwards nothing
C13_NonDataFrameEndsUnit ==
    \A r \in reads :
        (reply = "ctrl" /\ r.parsed >= 1) =>
            (r.parsed = 1 /\ r.hold = NoFrame /\ r.fwd = 0)

\* C14: a read unit puts at most one frame on the stage's output channel,
\* whatever its sub-stream carries: the output holds as many frames of the
\* item as the unit has forwarded, never more than one, and a unit that has
\* forwarded has returned
C14_OneFramePerSubStream ==
    \A r \in reads :
        /\ r.fwd <= 1
        /\ Cardinality(OfItem(hist[r.stage], r.tid)) = r.fwd
        /\ r.fwd = 1 => r.pc = "done"

\* a read unit has forwarded one frame and returned although its sub-stream
\* holds another data frame
C14_Witness ==
    \E r \in reads :
        /\ r.fwd = 1 /\ r.pc = "done"
        /\ Len(r.frames) > 0 /\ Head(r.frames).tag = TagOfDataFrame

\* C15: every pipeline channel is closed at most once, the source reader's by
\* the source reader when it returns and a stage's by the stage's goroutine
\* when its receiver returns, and by nobody else
C15_ClosedOnceByOwner ==
    /\ \A k \in Chans : closed[k] <= 1
    /\ (closed[0] = 1) <=> (srcPc \in {"stopped", "ended"})
    /\ \A k \in Stages : (closed[k] = 1) <=> (recvPc[k] = "done")

\* the source ended, a session queue was closed and the context was cancelled,
\* and each channel of a two-stage pipeline has been closed once
C15_Witness ==
    /\ Len(funcs) = 2 /\ ~panicked
    /\ ctxDone /\ srcPc = "ended" /\ (\E k \in Stages : sessqClosed[k])
    /\ \A k \in Chans : closed[k] = 1

\* C16: while the context is not cancelled, an item waiting on a stage's input
\* channel can always be taken and dispatched by the stage's fan-out, whatever
\* the send units of the items before it are doing: nothing they do keeps the
\* fan-out from its next take
C16_ItemsKeepBeingTaken ==
    \A k \in Stages :
        (Len(chan[k - 1]) > 0 /\ ~ctxDone) => ENABLED FanTake(k)

\* the accept loop of the same session as a, after a step
LoopAfter(a) ==
    {b \in accepts' : b.stage = a.stage /\ b.session = a.session}

\* the sub-streams accepted so far from a's session
AcceptedFrom(rs, a) ==
    {r.tid : r \in {x \in rs : x.stage = a.stage /\ x.session = a.session}}

\* C17: an accept loop sees at most one accept error and has ended exactly when
\* it has seen one; an ended loop stays ended and accepts no further sub-stream
\* of its session; the step in which a loop sees its error changes neither the
\* other accept loops nor the stage's receiver loop
C17_AcceptFailureIsTerminal ==
    /\ [](\A a \in accepts : a.errs <= 1 /\ (a.errs = 1 <=> a.pc = "done"))
    /\ [][\A a \in accepts : a.pc = "done" =>
            /\ a \in accepts'
            /\ AcceptedFrom(reads', a) = AcceptedFrom(reads, a)]_vars
    /\ [][\A a \in accepts :
            (\E b \in LoopAfter(a) : b.errs > a.errs) =>
                /\ accepts \ {a} \subseteq accepts'
                /\ recvPc' = recvPc]_vars

C17_Witness ==
    /\ ~ctxDone /\ ~panicked
    /\ \E a, b \in accepts :
        /\ a.stage = b.stage /\ a.session # b.session
        /\ a.pc = "done" /\ a.errs = 1
        /\ b.pc = "accept" /\ recvPc[a.stage] = "select"
        /\ \E p \in pending : p.stage = a.stage /\ p.session = a.session

\* f was read by a reply read unit of stage k from a sub-stream of one of the
\* stage's sessions and forwarded
ReadFromReply(k, f) ==
    \E r \in reads :
        /\ r.stage = k /\ r.fwd >= 1 /\ r.hold = f
        /\ r.session # Nil
        /\ \E j \in DOMAIN funcs[k] : funcs[k][j].session = r.session

\* f is an input item of stage k that a send unit passed through unchanged
\* because its replica's session was nil or its sub-stream failed to open
PassedThrough(k, f) ==
    \E u \in UnitsOf(k) :
        /\ NilOrOpenFailed(u) /\ u.passed >= 1 /\ u.data = f
        /\ \E i \in DOMAIN Taken(k) : Taken(k)[i] = f

\* C18: every frame ever enqueued on a stage's output channel (so every frame
\* the channel holds) is a data frame, and is either one a reply read unit read
\* from a sub-stream of one of the stage's sessions or an input item passed
\* through after a nil session or a failed open; no frame there belongs to an
\* item dropped for lack of replicas or after a failed write
C18_OutputOnlyRepliesAndPassthroughs ==
    \A k \in Stages : \A i \in DOMAIN hist[k] :
        /\ IsData(hist[k][i])
        /\ ReadFromReply(k, hist[k][i]) \/ PassedThrough(k, hist[k][i])
        /\ \A u \in UnitsOf(k) :
            (u.nrep = 0 \/ u.wfail > 0) => u.data.tid # hist[k][i].tid

C18_Witness ==
    \E k \in Stages : \E i, j \in DOMAIN hist[k] :
        /\ hist[k][i].tid # hist[k][j].tid
        /\ PassedThrough(k, hist[k][i]) /\ ~ReadFromReply(k, hist[k][i])
        /\ ReadFromReply(k, hist[k][j]) /\ ~PassedThrough(k, hist[k][j])

\* every goroutine the pipeline has started has returned
AllUnitsDone ==
    /\ srcPc \in {"stopped", "ended"}
    /\ \A k \in Stages : fanPc[k] = "done" /\ recvPc[k] = "done"
    /\ \A u \in sends : u.pc = "done"
    /\ \A a \in accepts : a.pc = "done"
    /\ \A r \in reads : r.pc = "done"

\* C19: once the governing context is cancelled, every unit of work the
\* pipeline has started (source reader, fan-outs, receivers, send units, accept
\* loops, read units) eventually returns
C19_CancelEndsEveryUnit ==
    ctxDone ~> AllUnitsDone

\* C20: no step of a send unit or a read unit of a stage is an enqueue on that
\* stage's output channel when the channel has already been closed
C20_NoSendOnClosedChannel ==
    [][\A k \in Stages : IsClosed(k) =>
          /\ ~(\E u \in UnitsOf(k) : SendPass(u))
          /\ ~(\E r \in reads : r.stage = k /\ ReadForward(r))]_vars

====
